---- MODULE Spec2Model ----
(***************************************************************************)
(* A model of src/app.py: the unified RDF graph loaded once at start-up,   *)
(* and the three request handlers get_forms, lookup_verb and               *)
(* validate_graph that read it.                                            *)
(*                                                                         *)
(* Representation.  A Python string is a sequence of atoms.  An atom is a  *)
(* TLA+ string standing for a piece of text that holds no "/" and no       *)
(* whitespace, except the one-character atoms "/", " " and "\t".  An RDF   *)
(* term is a record [kind, str]; a triple is a 3-tuple of terms; a graph   *)
(* is the sequence of its distinct triples in store order, which is the    *)
(* order rdflib's pattern queries return them in.                          *)
(***************************************************************************)
EXTENDS Integers, Sequences, FiniteSets, TLC

VARIABLES graph, phase, doc, pos, engine, req, threads

vars == <<graph, phase, doc, pos, engine, req, threads>>

(***************************************************************************)
(* Bounds of the model.                                                    *)
(***************************************************************************)
MaxLen == 3
MaxEvokes == 2
MaxFieldShapes == 2
MaxFieldProps == 2
MaxShapes == 3
MaxDocLen == 2
MaxLoadLen == 3
NumThreads == 2

(***************************************************************************)
(* Strings.                                                                *)
(***************************************************************************)
Whitespace == {" ", "\t"}

LowerChar(c) == IF c = "E" THEN "e" ELSE c

\* str.lower()
Lower(s) == [i \in 1..Len(s) |-> LowerChar(s[i])]

\* str.strip(): drops every leading and trailing whitespace character
Strip(s) ==
  LET keep == {i \in 1..Len(s) : s[i] \notin Whitespace}
  IN  IF keep = {} THEN <<>>
      ELSE LET lo == CHOOSE i \in keep : \A j \in keep : i <= j
               hi == CHOOSE i \in keep : \A j \in keep : j <= i
           IN  SubSeq(s, lo, hi)

\* str.replace(old, new) for one-character old and new
Replace(s, old, new) == [i \in 1..Len(s) |-> IF s[i] = old THEN new ELSE s[i]]

\* str.split("/")[-1]: the text after the last "/", the whole text without one
LastSegment(s) ==
  LET cuts == {i \in 1..Len(s) : s[i] = "/"}
  IN  IF cuts = {} THEN s
      ELSE LET last == CHOOSE i \in cuts : \A j \in cuts : j <= i
           IN  SubSeq(s, last + 1, Len(s))

Range(s) == {s[i] : i \in DOMAIN s}

(***************************************************************************)
(* RDF terms and namespaces.                                               *)
(***************************************************************************)
URIRef(s) == [kind |-> "uri", str |-> s]
Literal(s) == [kind |-> "lit", str |-> s]

\* bool(term): a URIRef or a plain literal is true iff its text is not empty
Truthy(t) == Len(t.str) > 0

\* Optional values: None is the empty sequence, a value x is <<x>>
None == <<>>
Some(x) == <<x>>

SH == <<"http:", "/", "/", "www.w3.org", "/", "ns", "/", "shacl#">>
ONT == <<"http:", "/", "/", "example.org", "/", "ontology", "/">>
RDF == <<"http:", "/", "/", "www.w3.org", "/", "1999", "/", "02", "/", "22-rdf-syntax-ns#">>

\* Namespace.__getitem__: the namespace text followed by the name
Term(ns, name) == URIRef(ns \o name)

RDF_type == Term(RDF, <<"type">>)
SH_NodeShape == Term(SH, <<"NodeShape">>)
SH_targetClass == Term(SH, <<"targetClass">>)
SH_property == Term(SH, <<"property">>)
SH_path == Term(SH, <<"path">>)
SH_name == Term(SH, <<"name">>)
SH_minCount == Term(SH, <<"minCount">>)
ONT_evokes == Term(ONT, <<"evokes">>)
ONT_Verb == Term(ONT, <<"Verb">>)
ONT_semantic_domain == Term(ONT, <<"semantic_domain">>)
ONT_vn_class == Term(ONT, <<"vn_class">>)

(***************************************************************************)
(* The triple store: rdflib.Graph.                                         *)
(***************************************************************************)
\* rdflib.Graph(): a new, empty graph
NewGraph == <<>>

\* (s, p, o) in graph
Contains(g, t) == \E i \in 1..Len(g) : g[i] = t

\* Graph.add: a graph is a set of triples, adding one it holds changes nothing
Add(g, t) == IF Contains(g, t) THEN g ELSE Append(g, t)

\* Graph.objects(s, p), in store order
Objects(g, s, p) ==
  LET hits == SelectSeq(g, LAMBDA t : t[1] = s /\ t[2] = p)
  IN  [i \in 1..Len(hits) |-> hits[i][3]]

\* Graph.subjects(p, o), in store order
Subjects(g, p, o) ==
  LET hits == SelectSeq(g, LAMBDA t : t[2] = p /\ t[3] = o)
  IN  [i \in 1..Len(hits) |-> hits[i][1]]

\* Graph.value(s, p): the first object found, None without one
Value(g, s, p) ==
  LET os == Objects(g, s, p)
  IN  IF os = <<>> THEN None ELSE Some(os[1])

\* The parser's sink: the statements of a document added one by one
RECURSIVE AddAll(_, _)
AddAll(g, stmts) ==
  IF stmts = <<>> THEN g ELSE AddAll(Add(g, Head(stmts)), Tail(stmts))

(***************************************************************************)
(* lookup_verb.                                                            *)
(***************************************************************************)
\* A bug the canonicalization could have: spaces replaced before the strip
CanonicalizeReplaceFirst(verb) == Strip(Replace(Lower(verb), " ", "_"))

\* verb.lower().strip().replace(" ", "_")
Canonicalize(verb) == Replace(Strip(Lower(verb)), " ", "_")

\* ONT[verb_clean]
VerbUri(verb) == Term(ONT, Canonicalize(verb))

\* One pass of the loop over the situations
Mapping(g, verb_uri, sit) ==
  LET domain == Value(g, verb_uri, ONT_semantic_domain)
      vn == Value(g, verb_uri, ONT_vn_class)
  IN  [situation |-> LastSegment(sit.str),
       fallback_domain |->
         IF domain # None /\ Truthy(domain[1])
           THEN Some(LastSegment(domain[1].str)) ELSE None,
       vn_class |->
         IF vn # None /\ Truthy(vn[1])
           THEN LastSegment(vn[1].str) ELSE <<"Unknown">>]

NotFoundMessage(verb) == <<"Verb '">> \o verb \o <<"' not found in ontology.">>
UnmappedMessage == <<"Verb exists but no situations mapped.">>

\* A bug the fallback could have: the Verb declaration is never consulted
LookupNoFallback(g, verb) ==
  LET verb_uri == VerbUri(verb)
      situations == Objects(g, verb_uri, ONT_evokes)
  IN  IF situations = <<>>
        THEN [found |-> FALSE, message |-> NotFoundMessage(verb)]
        ELSE [found |-> TRUE, verb |-> verb,
              mappings |-> [i \in 1..Len(situations) |->
                              Mapping(g, verb_uri, situations[i])]]

\* A bug the loop could have: only the first mapping of a situation name kept
LookupDeduplicated(g, verb) ==
  LET verb_uri == VerbUri(verb)
      situations == Objects(g, verb_uri, ONT_evokes)
      all == [i \in 1..Len(situations) |-> Mapping(g, verb_uri, situations[i])]
      first == {i \in 1..Len(all) :
                  \A j \in 1..(i - 1) : all[j].situation # all[i].situation}
      pick[k \in 0..Len(all)] ==
        IF k = 0 THEN <<>>
        ELSE IF k \in first THEN Append(pick[k - 1], all[k]) ELSE pick[k - 1]
  IN  IF situations = <<>>
        THEN IF Contains(g, <<verb_uri, RDF_type, ONT_Verb>>)
               THEN [found |-> TRUE, verb |-> verb, mappings |-> <<>>,
                     message |-> UnmappedMessage]
               ELSE [found |-> FALSE, message |-> NotFoundMessage(verb)]
        ELSE [found |-> TRUE, verb |-> verb, mappings |-> pick[Len(all)]]

\* The handler of GET /api/lookup
lookup_verb(g, verb) ==
  LET verb_uri == VerbUri(verb)
      situations == Objects(g, verb_uri, ONT_evokes)
  IN  IF situations = <<>>
        THEN IF Contains(g, <<verb_uri, RDF_type, ONT_Verb>>)
               THEN [found |-> TRUE, verb |-> verb, mappings |-> <<>>,
                     message |-> UnmappedMessage]
               ELSE [found |-> FALSE, message |-> NotFoundMessage(verb)]
        ELSE [found |-> TRUE, verb |-> verb,
              mappings |-> [i \in 1..Len(situations) |->
                              Mapping(g, verb_uri, situations[i])]]

(***************************************************************************)
(* get_forms.                                                              *)
(***************************************************************************)
DigitValue(c) == CASE c = "0" -> 0 [] c = "1" -> 1 [] c = "2" -> 2 [] OTHER -> -1

\* int(text): surrounding whitespace dropped, an optional sign, then digits;
\* anything else raises ValueError (ok is FALSE)
ParseInt(text) ==
  LET t == Strip(text)
      signed == t # <<>> /\ t[1] \in {"+", "-"}
      digits == IF signed THEN Tail(t) ELSE t
      value[k \in 0..Len(digits)] ==
        IF k = 0 THEN 0 ELSE 10 * value[k - 1] + DigitValue(digits[k])
  IN  IF digits = <<>> \/ \E i \in 1..Len(digits) : DigitValue(digits[i]) < 0
        THEN [ok |-> FALSE, val |-> 0]
        ELSE [ok |-> TRUE,
              val |-> IF signed /\ t[1] = "-"
                        THEN 0 - value[Len(digits)] ELSE value[Len(digits)]]

\* The field lists of one shape: the loop over its property constraints.
\* ok is FALSE when int(min_count) raises.
Fields(g, shape) ==
  LET props == Objects(g, shape, SH_property)
      upTo[k \in 0..Len(props)] ==
        IF k = 0 THEN [ok |-> TRUE, fields |-> <<>>]
        ELSE LET before == upTo[k - 1]
                 path == Value(g, props[k], SH_path)
                 name == Value(g, props[k], SH_name)
                 min_count == Value(g, props[k], SH_minCount)
             IN  IF ~before.ok THEN before
                 ELSE IF path # None /\ Truthy(path[1])
                         /\ name # None /\ Truthy(name[1])
                   THEN IF min_count = None
                          THEN [ok |-> TRUE,
                                fields |-> Append(before.fields,
                                  [path |-> path[1].str, name |-> name[1].str,
                                   required |-> FALSE])]
                          ELSE LET n == ParseInt(min_count[1].str)
                               IN  IF ~n.ok THEN [ok |-> FALSE, fields |-> <<>>]
                                   ELSE [ok |-> TRUE,
                                         fields |-> Append(before.fields,
                                           [path |-> path[1].str,
                                            name |-> name[1].str,
                                            required |-> n.val > 0])]
                   ELSE before
  IN  upTo[Len(props)]

\* A bug the key could have: the whole class IRI instead of its last segment
ShapeNameWholeIri(target_class) == target_class.str

\* str(target_class).split("/")[-1]
ShapeName(target_class) == LastSegment(target_class.str)

\* A bug the store could have: the field lists of one key merged
StoreMerged(forms, shape_name, fields) ==
  [k \in DOMAIN forms \cup {shape_name} |->
     IF k = shape_name
       THEN IF k \in DOMAIN forms THEN forms[k] \o fields ELSE fields
       ELSE forms[k]]

\* forms[shape_name] = fields
Store(forms, shape_name, fields) ==
  [k \in DOMAIN forms \cup {shape_name} |->
     IF k = shape_name THEN fields ELSE forms[k]]

\* The handler of GET /api/forms.  A ValueError is not caught: the request
\* fails and no schema is returned.
get_forms(g) ==
  LET shapes == Subjects(g, RDF_type, SH_NodeShape)
      upTo[k \in 0..Len(shapes)] ==
        IF k = 0 THEN [ok |-> TRUE, forms |-> <<>>]
        ELSE LET before == upTo[k - 1]
                 target_class == Value(g, shapes[k], SH_targetClass)
             IN  IF ~before.ok THEN before
                 ELSE IF target_class = None \/ ~Truthy(target_class[1])
                   THEN before
                   ELSE LET fs == Fields(g, shapes[k])
                        IN  IF ~fs.ok THEN [ok |-> FALSE, forms |-> <<>>]
                            ELSE [ok |-> TRUE,
                                  forms |-> Store(before.forms,
                                    ShapeName(target_class[1]), fs.fields)]
      result == upTo[Len(shapes)]
  IN  IF result.ok THEN [status |-> "ok", forms |-> result.forms]
      ELSE [status |-> "error", error |-> "ValueError"]

(***************************************************************************)
(* validate_graph.  A Turtle text is the sequence of its statements: a     *)
(* statement is a triple, or a piece of text the parser rejects, which is  *)
(* any statement that is not a 3-tuple.                                    *)
(***************************************************************************)
IsTriple(statement) == Len(statement) = 3

ParserMessage(k) == <<"Bad syntax at statement", ToString(k)>>

\* Graph.parse(data=text, format="turtle") into g: the statements before the
\* first rejected one are in the graph when the parser raises
Parse(g, text) ==
  LET bad == {i \in 1..Len(text) : ~IsTriple(text[i])}
  IN  IF bad = {}
        THEN [ok |-> TRUE, graph |-> AddAll(g, text)]
        ELSE LET k == CHOOSE i \in bad : \A j \in bad : i <= j
             IN  [ok |-> FALSE, graph |-> AddAll(g, SubSeq(text, 1, k - 1)),
                  error |-> ParserMessage(k)]

\* What validate_graph submits to pyshacl.validate
EngineCall(data_graph, shacl_graph, ont_graph) ==
  [data_graph |-> data_graph, shacl_graph |-> shacl_graph,
   ont_graph |-> ont_graph, inference |-> "rdfs", abort_on_first |-> FALSE,
   meta_shacl |-> FALSE, debug |-> FALSE]

\* pyshacl.validate: the verdict and the report of the engine, which the
\* model takes as given per data graph (eng) and which changes no graph
Validate(eng, call) == eng[Range(call.data_graph)]

\* A bug the handler could have: the parser's exception is not caught
ValidateUncaught(g, eng, turtle_data) ==
  LET parsed == Parse(NewGraph, turtle_data)
      call == EngineCall(parsed.graph, g, g)
  IN  IF ~parsed.ok
        THEN [resp |-> [status |-> "error", error |-> parsed.error],
              calls |-> <<>>]
        ELSE [resp |-> [conforms |-> Validate(eng, call).conforms,
                        report_text |-> Validate(eng, call).report_text],
              calls |-> <<call>>]

\* The handler of POST /api/validate: the response and the calls made to
\* the engine
validate_graph(g, eng, turtle_data) ==
  LET parsed == Parse(NewGraph, turtle_data)
      call == EngineCall(parsed.graph, g, g)
  IN  IF ~parsed.ok
        THEN [resp |-> [conforms |-> FALSE, detail |-> parsed.error],
              calls |-> <<>>]
        ELSE [resp |-> [conforms |-> Validate(eng, call).conforms,
                        report_text |-> Validate(eng, call).report_text],
              calls |-> <<call>>]

(***************************************************************************)
(* Requests.  A request slot holds the operation, its argument and, once   *)
(* the handler has returned, the response.                                 *)
(***************************************************************************)
Idle == [pc |-> "idle"]

Done(operation, argument, response) ==
  [pc |-> "done", op |-> operation, arg |-> argument, resp |-> response]

(***************************************************************************)
(* Inputs of the verb lookups.                                             *)
(***************************************************************************)
VerbAlphabet == {"e", "E", " ", "_"}

RECURSIVE StringsUpTo(_, _)
StringsUpTo(alphabet, n) ==
  IF n = 0 THEN {<<>>}
  ELSE LET shorter == StringsUpTo(alphabet, n - 1)
       IN  shorter \cup {Append(s, c) : s \in shorter, c \in alphabet}

Verbs == StringsUpTo(VerbAlphabet, MaxLen)

\* Names under which the ontology may hold a verb
GraphVerbNames == {<<"e">>, <<"e", "_", "e">>, <<"E">>}

Situations ==
  {Term(ONT, <<"sit", "/", "Eating">>), Term(ONT, <<"alt", "/", "Eating">>),
   Term(ONT, <<"sit", "/", "Consuming">>)}

Ingestion == Term(ONT, <<"domain", "/", "Ingestion">>)
Motion == Term(ONT, <<"domain", "/", "Motion">>)

\* No semantic domain, one, or (against the data model) two
DomainLists == {<<>>, <<Ingestion>>, <<Motion, Ingestion>>}

VnClasses == {Term(ONT, <<"vn", "/", "eat-39.1">>)}

\* The sequences of at most n distinct members of S
RECURSIVE DistinctSeqs(_, _)
DistinctSeqs(S, n) ==
  IF n = 0 THEN {<<>>}
  ELSE LET shorter == DistinctSeqs(S, n - 1)
       IN  shorter \cup
           UNION {{Append(s, x) : x \in S \ Range(s)} : s \in shorter}

\* The facts an ontology document states about one verb, in document order
VerbFacts(name, typed, evoked, domains, vns) ==
  LET v == Term(ONT, name)
  IN  (IF typed THEN <<<<v, RDF_type, ONT_Verb>>>> ELSE <<>>)
      \o [i \in 1..Len(evoked) |-> <<v, ONT_evokes, evoked[i]>>]
      \o [i \in 1..Len(domains) |-> <<v, ONT_semantic_domain, domains[i]>>]
      \o [i \in 1..Len(vns) |-> <<v, ONT_vn_class, vns[i]>>]

LookupDocs ==
  {VerbFacts(name, typed, evoked, domains, vns) :
     name \in GraphVerbNames, typed \in BOOLEAN,
     evoked \in DistinctSeqs(Situations, MaxEvokes),
     domains \in DomainLists,
     vns \in DistinctSeqs(VnClasses, 1)}

\* The oracle that stands for the validation engine when it is not called
NoEngine == <<>>

(***************************************************************************)
(* The lookup service: a loaded ontology, serving verb lookups.            *)
(***************************************************************************)
InitLookup ==
  /\ doc \in LookupDocs
  /\ graph = AddAll(NewGraph, doc)
  /\ pos = Len(doc)
  /\ phase = "loaded"
  /\ engine = NoEngine
  /\ req = Idle
  /\ threads = <<>>

LookupVerb ==
  /\ phase \in {"loaded", "failed"}
  /\ req.pc = "idle"
  /\ \E verb \in Verbs : req' = Done("lookup", verb, lookup_verb(graph, verb))
  /\ UNCHANGED <<graph, phase, doc, pos, engine, threads>>

\* The service boundary sends the response; the next request may come
Respond ==
  /\ req.pc = "done"
  /\ req' = Idle
  /\ UNCHANGED <<graph, phase, doc, pos, engine, threads>>

NextLookup == LookupVerb \/ Respond

SpecLookup == InitLookup /\ [][NextLookup]_vars

(***************************************************************************)
(* The same service over the few ontologies that tell the outcomes of a    *)
(* lookup apart, for the properties that range over pairs of raw verbs.    *)
(***************************************************************************)
CanonDocs ==
  {VerbFacts(name, typed, evoked, <<Ingestion>>, <<>>) :
     name \in {<<"e">>, <<"e", "_", "e">>}, typed \in BOOLEAN,
     evoked \in {<<>>, <<Term(ONT, <<"sit", "/", "Eating">>),
                         Term(ONT, <<"sit", "/", "Consuming">>)>>}}

InitCanon ==
  /\ doc \in CanonDocs
  /\ graph = AddAll(NewGraph, doc)
  /\ pos = Len(doc)
  /\ phase = "loaded"
  /\ engine = NoEngine
  /\ req = Idle
  /\ threads = <<>>

SpecCanon == InitCanon /\ [][NextLookup]_vars

(***************************************************************************)
(* Properties of lookup_verb.                                              *)
(***************************************************************************)
LookupDone == req.pc = "done" /\ req.op = "lookup"

SameLetter(c, d) ==
  \/ c = d
  \/ {c, d} = {"e", "E"}

\* v is padding, core, padding with the core from position lo to hi
IsPadded(v, lo, hi) ==
  /\ \A i \in 1..(lo - 1) : v[i] \in Whitespace
  /\ \A i \in (hi + 1)..Len(v) : v[i] \in Whitespace

\* v and w differ only in letter case and in leading and trailing whitespace
SameUpToCaseAndPadding(v, w) ==
  \E lv \in 1..(Len(v) + 1), hv \in 0..Len(v) :
    /\ hv - lv >= -1
    /\ IsPadded(v, lv, hv)
    /\ \E lw \in 1..(Len(w) + 1) :
         LET hw == lw + (hv - lv)
         IN  /\ hw <= Len(w)
             /\ IsPadded(w, lw, hw)
             /\ \A k \in 0..(hv - lv) : SameLetter(v[lv + k], w[lw + k])

\* s is already in canonical form
IsCanonical(s) ==
  /\ \A i \in 1..Len(s) : s[i] \notin {"E", " "}
  /\ s # <<>> => s[1] \notin Whitespace /\ s[Len(s)] \notin Whitespace

\* C1: canonicalization is idempotent and leaves a canonical string as it is,
\* and two raw verbs that differ only in letter case and in leading and
\* trailing whitespace resolve to the same verb IRI, the same found flag and
\* the same mapping list.
C1_CanonicalizationInsensitive ==
  LookupDone =>
    /\ Canonicalize(Canonicalize(req.arg)) = Canonicalize(req.arg)
    /\ IsCanonical(req.arg) => Canonicalize(req.arg) = req.arg
    /\ \A w \in Verbs :
         SameUpToCaseAndPadding(req.arg, w) =>
           /\ VerbUri(w) = VerbUri(req.arg)
           /\ lookup_verb(graph, w).found = req.resp.found
           /\ req.resp.found =>
                lookup_verb(graph, w).mappings = req.resp.mappings

C1_Witness ==
  /\ LookupDone
  /\ req.arg = <<" ", "E">>
  /\ req.resp.found
  /\ Len(req.resp.mappings) = 2
  /\ SameUpToCaseAndPadding(req.arg, <<"e", "\t">>)

\* The places of the graph that hold a fact (s, p, _)
FactsAt(g, s, p) == {i \in 1..Len(g) : g[i][1] = s /\ g[i][2] = p}

\* C2: for a verb without evokes facts, lookup_verb answers found=false with
\* a message and no mappings when the graph does not declare the verb a
\* Verb, and found=true with an empty mapping list and the explanatory
\* message when it does.
C2_UnmappedVerb ==
  LookupDone /\ FactsAt(graph, VerbUri(req.arg), ONT_evokes) = {} =>
    IF \E i \in 1..Len(graph) :
         graph[i] = <<VerbUri(req.arg), RDF_type, ONT_Verb>>
      THEN /\ DOMAIN req.resp = {"found", "verb", "mappings", "message"}
           /\ req.resp.found
           /\ req.resp.mappings = <<>>
           /\ req.resp.message = UnmappedMessage
      ELSE /\ DOMAIN req.resp = {"found", "message"}
           /\ ~req.resp.found
           /\ req.resp.message = NotFoundMessage(req.arg)

C2_Witness ==
  /\ LookupDone
  /\ FactsAt(graph, VerbUri(req.arg), ONT_evokes) = {}
  /\ req.resp.found
  /\ req.resp.mappings = <<>>
  /\ req.arg # Canonicalize(req.arg)

\* C3: for a verb with N >= 1 evokes facts, lookup_verb answers found=true
\* with exactly N mappings, the k-th one naming the k-th evoked situation in
\* store order, and every mapping carries the same fallback_domain (the
\* short name of a semantic_domain of the verb, None without one) and the
\* same vn_class (the short name of a vn_class of the verb, "Unknown"
\* without one).
C3_OneMappingPerSituation ==
  LET uri == VerbUri(req.arg)
      at == FactsAt(graph, uri, ONT_evokes)
      domainsAt == FactsAt(graph, uri, ONT_semantic_domain)
      vnsAt == FactsAt(graph, uri, ONT_vn_class)
  IN  LookupDone /\ at # {} =>
        /\ req.resp.found
        /\ Len(req.resp.mappings) = Cardinality(at)
        /\ \A i \in at :
             LET k == Cardinality({j \in at : j <= i})
             IN  req.resp.mappings[k].situation = LastSegment(graph[i][3].str)
        /\ \A k \in 1..Len(req.resp.mappings) :
             /\ req.resp.mappings[k].fallback_domain =
                  req.resp.mappings[1].fallback_domain
             /\ req.resp.mappings[k].vn_class = req.resp.mappings[1].vn_class
        /\ IF domainsAt = {}
             THEN req.resp.mappings[1].fallback_domain = None
             ELSE \E i \in domainsAt :
                    req.resp.mappings[1].fallback_domain =
                      Some(LastSegment(graph[i][3].str))
        /\ IF vnsAt = {}
             THEN req.resp.mappings[1].vn_class = <<"Unknown">>
             ELSE \E i \in vnsAt :
                    req.resp.mappings[1].vn_class = LastSegment(graph[i][3].str)

C3_Witness ==
  /\ LookupDone
  /\ req.resp.found
  /\ Len(req.resp.mappings) = 2
  /\ req.resp.mappings[1].situation = req.resp.mappings[2].situation
  /\ req.resp.mappings[1].fallback_domain = Some(<<"Motion">>)
  /\ req.resp.mappings[2].vn_class = <<"Unknown">>

(***************************************************************************)
(* Inputs of the schema requests: shape documents.                         *)
(***************************************************************************)
BNode(s) == [kind |-> "bnode", str |-> s]

Possessor == Term(ONT, <<"possessor">>)
Possessed == Term(ONT, <<"possessed">>)

\* A property constraint as a document states it: the path, the name and
\* the minCount it gives, each at most once
Constraint(path, name, min_count) ==
  [path |-> path, name |-> name, min_count |-> min_count]

Required == Constraint(Some(Possessor), Some(Literal(<<"possessor">>)), Some(Literal(<<"1">>)))
Optional == Constraint(Some(Possessed), Some(Literal(<<"possessed">>)), None)
ZeroCount == Constraint(Some(Possessed), Some(Literal(<<"zero">>)), Some(Literal(<<"0">>)))
NegativeCount == Constraint(Some(Possessed), Some(Literal(<<"negative">>)), Some(Literal(<<"-", "1">>)))
NonNumericCount == Constraint(Some(Possessed), Some(Literal(<<"nonnumeric">>)), Some(Literal(<<"a">>)))
NoPath == Constraint(None, Some(Literal(<<"pathless">>)), Some(Literal(<<"1">>)))
NoName == Constraint(Some(Possessor), None, Some(Literal(<<"1">>)))
EmptyName == Constraint(Some(Possessor), Some(Literal(<<>>)), Some(Literal(<<"1">>)))

Constraints ==
  {Required, Optional, ZeroCount, NegativeCount, NonNumericCount, NoPath,
   NoName, EmptyName}

PossessionA == Term(ONT, <<"a", "/", "Possession">>)
PossessionB == Term(ONT, <<"b", "/", "Possession">>)
MotionA == Term(ONT, <<"a", "/", "Motion">>)

ShapeNode(i) == Term(ONT, <<"shapes", "/", "S" \o ToString(i)>>)
PropNode(i, j) == BNode(<<"p" \o ToString(i) \o "_" \o ToString(j)>>)

OptFact(s, p, o) == IF o = None THEN <<>> ELSE <<<<s, p, o[1]>>>>

\* The statements about the j-th constraint c of shape i, in document order
ConstraintFacts(i, j, c) ==
  <<<<ShapeNode(i), SH_property, PropNode(i, j)>>>>
  \o OptFact(PropNode(i, j), SH_path, c.path)
  \o OptFact(PropNode(i, j), SH_name, c.name)
  \o OptFact(PropNode(i, j), SH_minCount, c.min_count)

RECURSIVE Flatten(_)
Flatten(ss) == IF ss = <<>> THEN <<>> ELSE Head(ss) \o Flatten(Tail(ss))

\* A described shape: [target |-> optional class, props |-> constraints]
ShapeFacts(i, sh) ==
  <<<<ShapeNode(i), RDF_type, SH_NodeShape>>>>
  \o OptFact(ShapeNode(i), SH_targetClass, sh.target)
  \o Flatten([j \in 1..Len(sh.props) |-> ConstraintFacts(i, j, sh.props[j])])

ShapesDoc(shs) == Flatten([i \in 1..Len(shs) |-> ShapeFacts(i, shs[i])])

RECURSIVE SeqsUpTo(_, _)
SeqsUpTo(S, n) ==
  IF n = 0 THEN {<<>>}
  ELSE LET shorter == SeqsUpTo(S, n - 1)
       IN  shorter \cup {Append(s, x) : s \in shorter, x \in S}

\* Documents that exercise the fields of a shape
FieldShapes ==
  [target : {None, Some(PossessionA)},
   props : SeqsUpTo(Constraints, MaxFieldProps)]

FieldDocs == {ShapesDoc(shs) : shs \in SeqsUpTo(FieldShapes, MaxFieldShapes)}

\* Documents that exercise the keys of the schema
SchemaShapes ==
  [target : {None, Some(PossessionA), Some(PossessionB), Some(MotionA)},
   props : {<<>>, <<Required>>, <<Optional, Required>>, <<NonNumericCount>>}]

SchemaDocs == {ShapesDoc(shs) : shs \in SeqsUpTo(SchemaShapes, MaxShapes)}

(***************************************************************************)
(* The schema service: loaded shapes, serving form requests.               *)
(***************************************************************************)
GetForms ==
  /\ phase \in {"loaded", "failed"}
  /\ req.pc = "idle"
  /\ req' = Done("forms", <<>>, get_forms(graph))
  /\ UNCHANGED <<graph, phase, doc, pos, engine, threads>>

NextForms == GetForms \/ Respond

InitFields ==
  /\ doc \in FieldDocs
  /\ graph = AddAll(NewGraph, doc)
  /\ pos = Len(doc)
  /\ phase = "loaded"
  /\ engine = NoEngine
  /\ req = Idle
  /\ threads = <<>>

SpecFields == InitFields /\ [][NextForms]_vars

InitSchema ==
  /\ doc \in SchemaDocs
  /\ graph = AddAll(NewGraph, doc)
  /\ pos = Len(doc)
  /\ phase = "loaded"
  /\ engine = NoEngine
  /\ req = Idle
  /\ threads = <<>>

SpecSchema == InitSchema /\ [][NextForms]_vars

(***************************************************************************)
(* Properties of get_forms.  What the schema should hold is stated here    *)
(* from the facts of the graph, place by place, not with the handler's own *)
(* loops.                                                                  *)
(***************************************************************************)
FormsDone == req.pc = "done" /\ req.op = "forms"

\* The i-th smallest member of a set of places
Nth(K, r) == CHOOSE i \in K : Cardinality({j \in K : j <= i}) = r

\* The object of the first fact (s, p, _)
FirstObject(g, s, p) == g[Nth(FactsAt(g, s, p), 1)][3]

\* s has a fact (s, p, o) whose text is not empty
HasText(g, s, p) == \E i \in FactsAt(g, s, p) : g[i][3].str # <<>>

\* The places of the NodeShape declarations, and those with a targetClass
ShapesAt(g) == {i \in 1..Len(g) : g[i][2] = RDF_type /\ g[i][3] = SH_NodeShape}
TargetedAt(g) == {i \in ShapesAt(g) : HasText(g, g[i][1], SH_targetClass)}
TargetAt(g, i) == FirstObject(g, g[i][1], SH_targetClass)

\* The declaration processed last among those in K
Last(K) == CHOOSE i \in K : \A j \in K : j <= i

\* required, as stated: minCount present and an integer greater than zero
StatedRequired(g, prop) ==
  /\ FactsAt(g, prop, SH_minCount) # {}
  /\ ParseInt(FirstObject(g, prop, SH_minCount).str).ok
  /\ ParseInt(FirstObject(g, prop, SH_minCount).str).val > 0

\* The descriptors of the constraints of a shape that have a path and a
\* name, in the order of the constraints
StatedFields(g, shape) ==
  LET complete == {i \in FactsAt(g, shape, SH_property) :
                     /\ HasText(g, g[i][3], SH_path)
                     /\ HasText(g, g[i][3], SH_name)}
  IN  [r \in 1..Cardinality(complete) |->
         LET prop == g[Nth(complete, r)][3]
         IN  [path |-> FirstObject(g, prop, SH_path).str,
              name |-> FirstObject(g, prop, SH_name).str,
              required |-> StatedRequired(g, prop)]]

WithoutRequired(fields) ==
  [r \in 1..Len(fields) |-> [path |-> fields[r].path, name |-> fields[r].name]]

\* C4: the request completes with a schema, and every shape with a
\* targetClass has one descriptor per constraint with a path and a name, in
\* order, required iff minCount is present and an integer above zero (for
\* the shape stored last under its key).
C4_RequiredIffPositiveMinCount ==
  FormsDone =>
    /\ req.resp.status = "ok"
    /\ \A i \in TargetedAt(graph) :
         i = Last({j \in TargetedAt(graph) : TargetAt(graph, j) = TargetAt(graph, i)})
           => req.resp.forms[LastSegment(TargetAt(graph, i).str)]
                = StatedFields(graph, graph[i][1])

\* C8: the request does not fail; a shape without targetClass gets no key, a
\* shape with one gets an entry holding exactly its constraints with a path
\* and a name, which is empty when all are dropped.
C8_MissingMetadataDegrades ==
  FormsDone =>
    /\ req.resp.status = "ok"
    /\ DOMAIN req.resp.forms =
         {LastSegment(TargetAt(graph, i).str) : i \in TargetedAt(graph)}
    /\ \A i \in TargetedAt(graph) :
         i = Last({j \in TargetedAt(graph) : TargetAt(graph, j) = TargetAt(graph, i)})
           => WithoutRequired(req.resp.forms[LastSegment(TargetAt(graph, i).str)])
                = WithoutRequired(StatedFields(graph, graph[i][1]))

\* The shapes that share the targetClass of the shape declared at i
SharingAt(g, i) == {j \in TargetedAt(g) : TargetAt(g, j) = TargetAt(g, i)}

\* The shapes whose targetClass ends in the segment that of i ends in
SameKeyAt(g, i) ==
  {j \in TargetedAt(g) :
     LastSegment(TargetAt(g, j).str) = LastSegment(TargetAt(g, i).str)}

\* C5 as stated: the key of a shape is the last segment of its targetClass,
\* and when shapes share a targetClass the entry is the field list of the
\* one of them processed last.
C5_AsStated ==
  FormsDone /\ req.resp.status = "ok" =>
    \A i \in TargetedAt(graph) :
      /\ LastSegment(TargetAt(graph, i).str) \in DOMAIN req.resp.forms
      /\ Cardinality(SharingAt(graph, i)) >= 2 =>
           req.resp.forms[LastSegment(TargetAt(graph, i).str)]
             = StatedFields(graph, graph[Last(SharingAt(graph, i))][1])

\* C5, amended: the key of a shape is the last segment of its targetClass,
\* and the entry under a key is the field list of the shape processed last
\* among all those whose targetClass ends in that segment, not a merge.
C5_LastWriteWinsPerKey ==
  FormsDone /\ req.resp.status = "ok" =>
    \A i \in TargetedAt(graph) :
      /\ LastSegment(TargetAt(graph, i).str) \in DOMAIN req.resp.forms
      /\ req.resp.forms[LastSegment(TargetAt(graph, i).str)]
           = StatedFields(graph, graph[Last(SameKeyAt(graph, i))][1])

C5_Witness ==
  /\ FormsDone
  /\ req.resp.status = "ok"
  /\ \E i \in TargetedAt(graph) :
       /\ Cardinality(SharingAt(graph, i)) = 2
       /\ Cardinality(SameKeyAt(graph, i)) = 3
       /\ Last(SameKeyAt(graph, i)) \notin SharingAt(graph, i)
       /\ StatedFields(graph, graph[Last(SharingAt(graph, i))][1]) = <<>>
       /\ Len(req.resp.forms[<<"Possession">>]) = 2

\* C6 as stated: the schema has as many keys as the shapes have distinct
\* targetClass IRIs.
C6_AsStated ==
  FormsDone /\ req.resp.status = "ok" =>
    Cardinality(DOMAIN req.resp.forms)
      = Cardinality({TargetAt(graph, i) : i \in TargetedAt(graph)})

\* C6, amended: the keys of the schema are the distinct last segments of the
\* targetClass IRIs of the shapes.
C6_OneEntryPerLastSegment ==
  FormsDone /\ req.resp.status = "ok" =>
    /\ DOMAIN req.resp.forms =
         {LastSegment(TargetAt(graph, i).str) : i \in TargetedAt(graph)}
    /\ Cardinality(DOMAIN req.resp.forms)
         = Cardinality({LastSegment(TargetAt(graph, i).str) : i \in TargetedAt(graph)})

C6_Witness ==
  /\ FormsDone
  /\ req.resp.status = "ok"
  /\ Cardinality({TargetAt(graph, i) : i \in TargetedAt(graph)}) = 3
  /\ DOMAIN req.resp.forms = {<<"Possession">>, <<"Motion">>}

(***************************************************************************)
(* The validation service.                                                 *)
(***************************************************************************)
DataFactA == <<Term(ONT, <<"data", "/", "x">>), RDF_type, PossessionA>>
DataFactB == <<Term(ONT, <<"data", "/", "x">>), Possessor, Literal(<<"me">>)>>
Garbage == <<"@">>

\* The request bodies: Turtle texts of at most MaxDocLen statements
Texts == SeqsUpTo({DataFactA, DataFactB, Garbage}, MaxDocLen)

\* What the engine may answer
Verdicts ==
  {[conforms |-> TRUE, report_text |-> <<"Conforms: True">>],
   [conforms |-> FALSE, report_text |-> <<"Conforms: False", "minCount">>],
   [conforms |-> FALSE, report_text |-> <<"Conforms: False", "class">>]}

\* The engines: an answer for every data graph
Engines == [SUBSET {DataFactA, DataFactB} -> Verdicts]

ValidationDocs ==
  {<<>>, ShapesDoc(<<[target |-> Some(PossessionA), props |-> <<Required>>]>>)}

InitValidate ==
  /\ doc \in ValidationDocs
  /\ graph = AddAll(NewGraph, doc)
  /\ pos = Len(doc)
  /\ phase = "loaded"
  /\ engine \in Engines
  /\ req = Idle
  /\ threads = <<>>

ValidateGraph ==
  /\ phase \in {"loaded", "failed"}
  /\ req.pc = "idle"
  /\ \E text \in Texts :
       LET out == validate_graph(graph, engine, text)
       IN  req' = [pc |-> "done", op |-> "validate", arg |-> text,
                   resp |-> out.resp, calls |-> out.calls]
  /\ UNCHANGED <<graph, phase, doc, pos, engine, threads>>

NextValidate == ValidateGraph \/ Respond

SpecValidate == InitValidate /\ [][NextValidate]_vars

ValidateDone == req.pc = "done" /\ req.op = "validate"

\* C7: validate_graph always answers with a structured response.  A text
\* the parser rejects gives conforms=false and the parser's message as
\* detail, no report_text and no call of the engine; a text it accepts
\* gives the engine's conforms and report_text as they are and no detail.
C7_ValidateAlwaysStructured ==
  ValidateDone =>
    LET rejected == {i \in 1..Len(req.arg) : ~IsTriple(req.arg[i])}
    IN  IF rejected # {}
          THEN /\ DOMAIN req.resp = {"conforms", "detail"}
               /\ ~req.resp.conforms
               /\ req.resp.detail = ParserMessage(Nth(rejected, 1))
               /\ req.calls = <<>>
          ELSE /\ DOMAIN req.resp = {"conforms", "report_text"}
               /\ req.resp.conforms = engine[Range(req.arg)].conforms
               /\ req.resp.report_text = engine[Range(req.arg)].report_text
               /\ Len(req.calls) = 1
               /\ Range(req.calls[1].data_graph) = Range(req.arg)
               /\ req.calls[1].shacl_graph = graph
               /\ req.calls[1].ont_graph = graph

C7_Witness ==
  /\ ValidateDone
  /\ req.arg = <<DataFactA, Garbage>>
  /\ req.resp.detail = ParserMessage(2)
  /\ engine[{DataFactA}].conforms

(***************************************************************************)
(* Start-up: the module creates the graph and parses DATA_FILE into it,    *)
(* statement by statement; any exception is caught and printed, and the    *)
(* service starts with the graph as the parser left it.                    *)
(***************************************************************************)
VerbDeclaredE == <<Term(ONT, <<"e">>), RDF_type, ONT_Verb>>
VerbEvokesE == <<Term(ONT, <<"e">>), ONT_evokes, Term(ONT, <<"sit", "/", "Eating">>)>>
ShapeDeclared == <<ShapeNode(1), RDF_type, SH_NodeShape>>
ShapeTargeted == <<ShapeNode(1), SH_targetClass, PossessionA>>

\* The contents DATA_FILE may have
LoadTexts ==
  SeqsUpTo({VerbDeclaredE, VerbEvokesE, ShapeDeclared, ShapeTargeted, Garbage},
           MaxLoadLen)

InitLoad ==
  /\ doc \in LoadTexts
  /\ graph = NewGraph
  /\ pos = 0
  /\ phase = "loading"
  /\ engine = NoEngine
  /\ req = Idle
  /\ threads = <<>>

\* A bug the handler could have: the graph emptied when the load fails
GraphRolledBack(g) == NewGraph

\* except Exception as e: print(...) leaves the graph as it is
GraphAfterError(g) == g

\* The file cannot be opened: parse raises before it reads a statement
OpenFails ==
  /\ phase = "loading"
  /\ pos = 0
  /\ phase' = "failed"
  /\ graph' = GraphAfterError(graph)
  /\ UNCHANGED <<doc, pos, engine, req, threads>>

\* The parser reads one more statement and adds its triple
ParseStatement ==
  /\ phase = "loading"
  /\ pos < Len(doc)
  /\ IsTriple(doc[pos + 1])
  /\ graph' = Add(graph, doc[pos + 1])
  /\ pos' = pos + 1
  /\ UNCHANGED <<phase, doc, engine, req, threads>>

\* The parser rejects the next statement: parse raises, the handler prints
ParseFails ==
  /\ phase = "loading"
  /\ pos < Len(doc)
  /\ ~IsTriple(doc[pos + 1])
  /\ phase' = "failed"
  /\ graph' = GraphAfterError(graph)
  /\ UNCHANGED <<doc, pos, engine, req, threads>>

\* The parser reaches the end of the text
ParseEnds ==
  /\ phase = "loading"
  /\ pos = Len(doc)
  /\ phase' = "loaded"
  /\ UNCHANGED <<graph, doc, pos, engine, req, threads>>

NextLoad ==
  \/ OpenFails
  \/ ParseStatement
  \/ ParseFails
  \/ ParseEnds
  \/ LookupVerb
  \/ GetForms
  \/ Respond

SpecLoad == InitLoad /\ [][NextLoad]_vars

\* C10 as stated: after a failed load every lookup answers found=false and
\* every schema request answers with an empty forms mapping.
C10_AsStated ==
  phase = "failed" =>
    /\ LookupDone => ~req.resp.found
    /\ FormsDone => req.resp.status = "ok" /\ req.resp.forms = <<>>

\* C10, amended: after a failed load the service answers requests from the
\* triples of the statements parsed before the failure.  When the load
\* failed before the first statement every lookup answers found=false and
\* every schema request an empty forms mapping; otherwise a lookup finds a
\* verb iff those triples declare it or say what it evokes, and the schema
\* has the keys of the shapes those triples target.
C10_ServesWhatWasParsed ==
  phase = "failed" =>
    /\ Range(graph) = {doc[i] : i \in 1..pos}
    /\ \A i \in 1..pos : IsTriple(doc[i])
    /\ LookupDone =>
         (req.resp.found <=>
            \E i \in 1..pos :
              /\ doc[i][1] = VerbUri(req.arg)
              /\ \/ doc[i][2] = ONT_evokes
                 \/ doc[i][2] = RDF_type /\ doc[i][3] = ONT_Verb)
    /\ FormsDone =>
         /\ req.resp.status = "ok"
         /\ DOMAIN req.resp.forms =
              {LastSegment(doc[i][3].str) :
                 i \in {j \in 1..pos :
                          /\ doc[j][2] = SH_targetClass
                          /\ \E k \in 1..pos :
                               doc[k] = <<doc[j][1], RDF_type, SH_NodeShape>>}}
    /\ pos = 0 =>
         /\ LookupDone => ~req.resp.found
         /\ FormsDone => req.resp.forms = <<>>

C10_Witness ==
  /\ phase = "failed"
  /\ pos = 2
  /\ LookupDone
  /\ req.resp.found
  /\ Len(req.resp.mappings) = 1

(***************************************************************************)
(* Concurrent requests.  The handlers are plain functions, which the       *)
(* server runs in worker threads: each thread runs one handler at a time,  *)
(* and the threads interleave between any two reads of the shared graph.   *)
(* A thread holds the handler's local variables.                           *)
(***************************************************************************)
Threads == 1..NumThreads

ConcVerbs == {<<"e">>, <<" ", "E">>, <<"_">>}
ConcTexts == {<<DataFactA>>, <<DataFactA, Garbage>>, <<DataFactB, DataFactA>>}

ConcDocs ==
  {ShapesDoc(<<[target |-> Some(PossessionA), props |-> <<Required>>],
               [target |-> Some(PossessionB), props |-> <<Optional>>]>>)
     \o VerbFacts(<<"e">>, TRUE,
                  <<Term(ONT, <<"sit", "/", "Eating">>),
                    Term(ONT, <<"sit", "/", "Consuming">>)>>,
                  <<Ingestion>>, <<>>),
   ShapesDoc(<<[target |-> Some(MotionA), props |-> <<NonNumericCount>>]>>)
     \o VerbFacts(<<"e">>, TRUE, <<>>, <<>>, <<>>)}

ConcEngines ==
  {e \in Engines :
     e[{}].conforms /\ e[{DataFactB}] = e[{}] /\ e[{DataFactA, DataFactB}] # e[{}]}

InitConc ==
  /\ doc \in ConcDocs
  /\ graph = AddAll(NewGraph, doc)
  /\ pos = Len(doc)
  /\ phase = "loaded"
  /\ engine \in ConcEngines
  /\ req = Idle
  /\ threads = [t \in Threads |-> Idle]

Set(t, slot) == threads' = [threads EXCEPT ![t] = slot]

Return(t, response) ==
  Set(t, [pc |-> "done", op |-> threads[t].op, arg |-> threads[t].arg,
          resp |-> response])

\* get_forms is entered: forms = {}
StartForms(t) ==
  /\ phase \in {"loaded", "failed"}
  /\ threads[t].pc = "idle"
  /\ Set(t, [pc |-> "forms", op |-> "forms", arg |-> <<>>, k |-> 0,
             forms |-> <<>>])
  /\ UNCHANGED <<graph, phase, doc, pos, engine, req>>

\* One pass of the loop over the shapes, or its end and the return
FormsPass(t) ==
  /\ threads[t].pc = "forms"
  /\ LET shapes == Subjects(graph, RDF_type, SH_NodeShape)
         k == threads[t].k + 1
         target_class == Value(graph, shapes[k], SH_targetClass)
         fs == Fields(graph, shapes[k])
     IN  IF k > Len(shapes)
           THEN Return(t, [status |-> "ok", forms |-> threads[t].forms])
           ELSE IF target_class = None \/ ~Truthy(target_class[1])
             THEN Set(t, [threads[t] EXCEPT !.k = k])
             ELSE IF ~fs.ok
               THEN Return(t, [status |-> "error", error |-> "ValueError"])
               ELSE Set(t, [threads[t] EXCEPT
                              !.k = k,
                              !.forms = Store(@, ShapeName(target_class[1]),
                                              fs.fields)])
  /\ UNCHANGED <<graph, phase, doc, pos, engine, req>>

\* lookup_verb is entered and queries the situations
StartLookup(t) ==
  /\ phase \in {"loaded", "failed"}
  /\ threads[t].pc = "idle"
  /\ \E verb \in ConcVerbs :
       LET situations == Objects(graph, VerbUri(verb), ONT_evokes)
       IN  Set(t, [pc |-> IF situations = <<>> THEN "fallback" ELSE "mappings",
                   op |-> "lookup", arg |-> verb, situations |-> situations,
                   results |-> <<>>])
  /\ UNCHANGED <<graph, phase, doc, pos, engine, req>>

\* No situations: the check for the Verb declaration, and the return
LookupFallback(t) ==
  /\ threads[t].pc = "fallback"
  /\ IF Contains(graph, <<VerbUri(threads[t].arg), RDF_type, ONT_Verb>>)
       THEN Return(t, [found |-> TRUE, verb |-> threads[t].arg,
                       mappings |-> <<>>, message |-> UnmappedMessage])
       ELSE Return(t, [found |-> FALSE,
                       message |-> NotFoundMessage(threads[t].arg)])
  /\ UNCHANGED <<graph, phase, doc, pos, engine, req>>

\* One pass of the loop over the situations, or its end and the return
LookupPass(t) ==
  /\ threads[t].pc = "mappings"
  /\ LET k == Len(threads[t].results) + 1
     IN  IF k > Len(threads[t].situations)
           THEN Return(t, [found |-> TRUE, verb |-> threads[t].arg,
                           mappings |-> threads[t].results])
           ELSE Set(t, [threads[t] EXCEPT
                          !.results = Append(@,
                            Mapping(graph, VerbUri(threads[t].arg),
                                    threads[t].situations[k]))])
  /\ UNCHANGED <<graph, phase, doc, pos, engine, req>>

\* validate_graph is entered: data_graph = rdflib.Graph()
StartValidate(t) ==
  /\ phase \in {"loaded", "failed"}
  /\ threads[t].pc = "idle"
  /\ \E text \in ConcTexts :
       Set(t, [pc |-> "parse", op |-> "validate", arg |-> text,
               data_graph |-> NewGraph])
  /\ UNCHANGED <<graph, phase, doc, pos, engine, req>>

\* A bug the handler could have: the request body parsed into the shared graph
ValidateParseShared(t) ==
  /\ threads[t].pc = "parse"
  /\ LET parsed == Parse(graph, threads[t].arg)
     IN  /\ graph' = parsed.graph
         /\ IF parsed.ok
              THEN Set(t, [threads[t] EXCEPT !.pc = "engine"])
              ELSE Return(t, [conforms |-> FALSE, detail |-> parsed.error])
  /\ UNCHANGED <<phase, doc, pos, engine, req>>

\* data_graph.parse(...), and the return when it raises
ValidateParse(t) ==
  /\ threads[t].pc = "parse"
  /\ LET parsed == Parse(threads[t].data_graph, threads[t].arg)
     IN  IF parsed.ok
           THEN Set(t, [threads[t] EXCEPT !.pc = "engine",
                                          !.data_graph = parsed.graph])
           ELSE Return(t, [conforms |-> FALSE, detail |-> parsed.error])
  /\ UNCHANGED <<graph, phase, doc, pos, engine, req>>

\* The call of the engine, and the return
ValidateEngine(t) ==
  /\ threads[t].pc = "engine"
  /\ LET v == Validate(engine, EngineCall(threads[t].data_graph, graph, graph))
     IN  Return(t, [conforms |-> v.conforms, report_text |-> v.report_text])
  /\ UNCHANGED <<graph, phase, doc, pos, engine, req>>

\* The response is sent and the thread takes the next request
Reply(t) ==
  /\ threads[t].pc = "done"
  /\ Set(t, Idle)
  /\ UNCHANGED <<graph, phase, doc, pos, engine, req>>

NextConc ==
  \E t \in Threads :
    \/ StartForms(t)
    \/ FormsPass(t)
    \/ StartLookup(t)
    \/ LookupFallback(t)
    \/ LookupPass(t)
    \/ StartValidate(t)
    \/ ValidateParse(t)
    \/ ValidateEngine(t)
    \/ Reply(t)

SpecConc == InitConc /\ [][NextConc]_vars

\* What a request answers when it runs alone on the graph loaded at start-up
Alone(operation, argument) ==
  LET loaded == AddAll(NewGraph, doc)
  IN  CASE operation = "forms" -> get_forms(loaded)
        [] operation = "lookup" -> lookup_verb(loaded, argument)
        [] operation = "validate" -> validate_graph(loaded, engine, argument).resp

\* C9: under every interleaving of the three handlers the shared graph
\* holds the triples loaded at start-up and no others, the data graph of a
\* validation holds triples of its own request body only, and every
\* response is the one the request gets when it runs alone.
C9_GraphReadOnlyUnderConcurrency ==
  /\ Range(graph) = Range(doc)
  /\ \A t \in Threads :
       /\ threads[t].pc \in {"parse", "engine"} =>
            Range(threads[t].data_graph) \subseteq Range(threads[t].arg)
       /\ threads[t].pc = "done" =>
            threads[t].resp = Alone(threads[t].op, threads[t].arg)

C9_Witness ==
  /\ threads[1].pc = "forms"
  /\ threads[1].k = 1
  /\ threads[2].pc = "done"
  /\ threads[2].op = "validate"
  /\ threads[2].arg = <<DataFactB, DataFactA>>
  /\ ~threads[2].resp.conforms

====
